---- MODULE Spec2Model ----
(***************************************************************************)
(* Model of baby_names.py: the cached load_data pipeline (fetch, load,     *)
(* merge, per-partition popularity and rank), the match engine             *)
(* (find_matching_rows, filter_name, check_match) and the Streamlit script *)
(* body that reads the widgets, gates on name_exists and filters the plot  *)
(* slice.                                                                  *)
(*                                                                         *)
(* Text is a sequence of one-character strings, so that str.capitalize,    *)
(* str.strip, str.split and starts_with are computed character by          *)
(* character.  A table is a sequence of rows (records), in row order.      *)
(***************************************************************************)
EXTENDS Integers, Sequences, FiniteSets, TLC

VARIABLES
    archive,           \* contents of the two remote ZIP archives
    cache,             \* st.cache_data store of load_data: {} or {table}
    called,            \* load_data() has been called in this process
    fetched,           \* number of requests.get calls the last call issued
    first_name_input,  \* value of the "Name" text_input (NoneText = None)
    states,            \* value of the "States" multiselect
    gender_select,     \* value of the "Gender" multiselect
    use_rank,          \* value of the "Metric: rank" toggle
    years,             \* value of the "Years" slider, <<lo, hi>>; <<>> before it exists
    view,              \* what the last script run ended with and showed:
                       \*   outcome, name_exists, plot (slice and options),
                       \*   messages (names reported not found, in order),
                       \*   matches (the "Similar names" container)
    args,              \* arguments of the last direct function call
    ret                \* value returned by the last direct function call

vars == <<archive, cache, called, fetched, first_name_input, states,
          gender_select, use_rank, years, view, args, ret>>

widgets == <<first_name_input, states, gender_select, use_rank, years>>

----------------------------------------------------------------------------
(* Bounds                                                                  *)

MaxTextLen == 3      \* longest text typed into the Name box
MaxRows == 3         \* most rows in one archive entry (load_data runs)

----------------------------------------------------------------------------
(* Characters and strings                                                  *)

Chars == {"a", "A", "b", "B", ",", " "}

\* The characters typed into the Name box in the runs of the app
TypedChars == {"a", "b", ",", " "}

\* Code point of a character: the order polars sorts Utf8 values by.
ord(c) ==
    CASE c = " " -> 32
      [] c = "," -> 44
      [] c = "A" -> 65
      [] c = "B" -> 66
      [] c = "a" -> 97
      [] c = "b" -> 98

upper(c) ==
    CASE c = "a" -> "A"
      [] c = "b" -> "B"
      [] OTHER -> c

lower(c) ==
    CASE c = "A" -> "a"
      [] c = "B" -> "b"
      [] OTHER -> c

isspace(c) == c = " "

\* (mutant) only the first character is changed
capitalize_first_only(t) ==
    IF t = <<>> THEN <<>> ELSE <<upper(Head(t))>> \o Tail(t)

\* str.capitalize(): the first character upper-cased, the rest lower-cased.
capitalize(t) ==
    IF t = <<>> THEN <<>>
    ELSE <<upper(Head(t))>> \o [i \in 1..(Len(t) - 1) |-> lower(Tail(t)[i])]

RECURSIVE lstrip(_)
lstrip(t) ==
    IF t = <<>> THEN <<>>
    ELSE IF isspace(Head(t)) THEN lstrip(Tail(t)) ELSE t

RECURSIVE rstrip(_)
rstrip(t) ==
    IF t = <<>> THEN <<>>
    ELSE IF isspace(t[Len(t)]) THEN rstrip(SubSeq(t, 1, Len(t) - 1)) ELSE t

\* str.strip(): leading and trailing whitespace removed.
strip(t) == rstrip(lstrip(t))

\* "," in text
has_comma(t) == \E i \in 1..Len(t) : t[i] = ","

\* str.split(","): the pieces between commas, empty pieces kept.
RECURSIVE split(_)
split(t) ==
    IF ~has_comma(t) THEN <<t>>
    ELSE LET k == CHOOSE i \in 1..Len(t) :
                      t[i] = "," /\ \A j \in 1..(i - 1) : t[j] # ","
         IN  <<SubSeq(t, 1, k - 1)>> \o split(SubSeq(t, k + 1, Len(t)))

\* polars str.starts_with
starts_with(s, p) == Len(p) <= Len(s) /\ SubSeq(s, 1, Len(p)) = p

\* s sorts strictly before t (code point order, a proper prefix first).
RECURSIVE str_lt(_, _)
str_lt(s, t) ==
    IF t = <<>> THEN FALSE
    ELSE IF s = <<>> THEN TRUE
    ELSE IF Head(s) # Head(t) THEN ord(Head(s)) < ord(Head(t))
    ELSE str_lt(Tail(s), Tail(t))

\* Series.sort() of a set of distinct strings.
RECURSIVE sort(_)
sort(S) ==
    IF S = {} THEN <<>>
    ELSE LET m == CHOOSE x \in S : \A y \in S \ {x} : str_lt(x, y)
         IN  <<m>> \o sort(S \ {m})

\* Series.head(n)
head(s, n) == SubSeq(s, 1, IF Len(s) < n THEN Len(s) ELSE n)

\* Python all([...])
all_true(bs) == \A i \in 1..Len(bs) : bs[i]

\* Expr.is_in / Series.is_in for a collection given as a set
is_in(x, S) == x \in S

\* Series.is_in for a Python list or tuple of values
is_in_list(x, l) == \E i \in 1..Len(l) : l[i] = x

\* (mutant) the two ends left out
is_between_open(x, lo, hi) == lo < x /\ x < hi

\* Expr.is_between(lo, hi), closed on both sides
is_between(x, lo, hi) == lo <= x /\ x <= hi

\* All sequences over S of length lo..hi
SeqsOf(S, lo, hi) == UNION {[1..n -> S] : n \in lo..hi}

----------------------------------------------------------------------------
(* load_data: fetch, load, merge                                           *)

\* An archive member is read only if filename.lower().endswith(".txt").
\* A national member "yobYYYY.txt" carries its year in filename[3:7]; the
\* model keeps the parsed year as the field yob.
is_data_entry(e) == e.txt

RECURSIVE concat(_)
\* pl.concat(items): the rows of the items one after another
concat(items) ==
    IF items = <<>> THEN <<>> ELSE Head(items) \o concat(Tail(items))

\* The list comprehension over archive.namelist() with its filter
RECURSIVE data_entries(_)
data_entries(es) ==
    IF es = <<>> THEN <<>>
    ELSE IF is_data_entry(Head(es)) THEN <<Head(es)>> \o data_entries(Tail(es))
    ELSE data_entries(Tail(es))

read_state_entry(e) ==
    [i \in 1..Len(e.rows) |->
        [state |-> e.rows[i].state, gender |-> e.rows[i].gender,
         year |-> e.rows[i].year, name |-> e.rows[i].name,
         count |-> e.rows[i].count]]

read_national_entry(e) ==
    [i \in 1..Len(e.rows) |->
        [state |-> "nation", gender |-> e.rows[i].gender,
         year |-> e.yob, name |-> e.rows[i].name,
         count |-> e.rows[i].count]]

df_state(a) ==
    LET es == data_entries(a.state)
    IN  concat([i \in 1..Len(es) |-> read_state_entry(es[i])])

df_national(a) ==
    LET es == data_entries(a.national)
    IN  concat([i \in 1..Len(es) |-> read_national_entry(es[i])])

\* .over(["state", "gender", "year"]): the rows of the partition of row i
partition(t, i) ==
    {j \in 1..Len(t) : /\ t[j].state = t[i].state
                       /\ t[j].gender = t[i].gender
                       /\ t[j].year = t[i].year}

RECURSIVE sum_count(_, _)
sum_count(t, P) ==
    IF P = {} THEN 0
    ELSE LET j == CHOOSE x \in P : TRUE IN t[j].count + sum_count(t, P \ {j})

\* count / count.sum().over(...), kept as the fraction num/den
popularity_of(t, i) == [num |-> t[i].count, den |-> sum_count(t, partition(t, i))]

\* The order rank(method="ordinal") gives to equal counts: polars documents
\* the order of occurrence; with descending=True the build may give either.
TieOrders == {"occurrence", "reverse"}

\* (mutant) rank(method="min"): equal counts share a rank
rank_min(t, i, tie) ==
    1 + Cardinality({j \in partition(t, i) : t[j].count > t[i].count})

\* count.rank(method="ordinal", descending=True).over(...)
rank_of(t, i, tie) ==
    1 + Cardinality({j \in partition(t, i) :
            \/ t[j].count > t[i].count
            \/ /\ t[j].count = t[i].count
               /\ IF tie = "occurrence" THEN j < i ELSE j > i})

\* The body of load_data once both downloads have succeeded
load_data(a, tie) ==
    LET t == df_national(a) \o df_state(a)
    IN  [i \in 1..Len(t) |->
            [state |-> t[i].state, gender |-> t[i].gender, year |-> t[i].year,
             name |-> t[i].name, count |-> t[i].count,
             popularity |-> popularity_of(t, i),
             rank |-> rank_of(t, i, tie)]]

\* What the two requests.get calls can do: both succeed, the first raises,
\* or the second raises.
Network == {"ok", "national_fails", "state_fails"}

requests_issued(net) == IF net = "national_fails" THEN 1 ELSE 2

\* (mutant) the decorator never finds a stored value
cache_data_miss(c) == FALSE

\* @st.cache_data(): a stored value is returned without running the body
cache_data_hit(c) == c # {}

\* The body of load_data runs: a raised exception stores nothing.
LoadDataBody(net, tie) ==
    /\ called' = TRUE
    /\ fetched' = requests_issued(net)
    /\ cache' = IF net = "ok" THEN {load_data(archive, tie)} ELSE cache

----------------------------------------------------------------------------
(* Match engine                                                            *)

name_matches(name, text, prefix) ==
    IF ~prefix THEN name = capitalize(text)
    ELSE starts_with(name, capitalize(text))

\* find_matching_rows(df, text, years, states, starts_with): the boolean
\* series, one value per row.  years is a Python list or tuple.
find_matching_rows(df, text, yrs, sts, prefix) ==
    [i \in 1..Len(df) |->
        /\ name_matches(df[i].name, text, prefix)
        /\ is_in_list(df[i].year, yrs)
        /\ is_in(df[i].state, sts)]

\* Series.any()
any_true(mask) == \E i \in 1..Len(mask) : mask[i]

\* df["name"].filter(mask).unique()
unique_names(df, mask) == {df[i].name : i \in {j \in 1..Len(df) : mask[j]}}

\* filter_name(df, "name", text, n_rows); it reads the module-level years and
\* states, passed here as yrs and sts.
filter_name(df, text, n_rows, yrs, sts) ==
    LET mask == find_matching_rows(df, text, yrs, sts, TRUE)
    IN  head(sort(unique_names(df, mask)), n_rows)

\* check_match(df, text, years, states)
check_match(df, text, yrs, sts) ==
    any_true(find_matching_rows(df, text, yrs, sts, FALSE))

----------------------------------------------------------------------------
(* The script body after df = load_data()                                  *)

NoneText == <<"None">>          \* text_input(value=None) before any entry
NoPlot == [rows |-> <<>>, y |-> "none", by |-> <<>>]
n_suggestions == 10             \* show_matches: n_rows=10
default_lo == 2015              \* slider value=(2015, max_year)

RECURSIVE seq_max(_)
seq_max(s) ==
    IF Len(s) = 1 THEN s[1]
    ELSE LET m == seq_max(Tail(s)) IN IF s[1] > m THEN s[1] ELSE m

RECURSIVE seq_min(_)
seq_min(s) ==
    IF Len(s) = 1 THEN s[1]
    ELSE LET m == seq_min(Tail(s)) IN IF s[1] < m THEN s[1] ELSE m

year_min(df) == seq_min([i \in 1..Len(df) |-> df[i].year])
year_max(df) == seq_max([i \in 1..Len(df) |-> df[i].year])

\* options=df["state"].unique()
state_options(df) == {df[i].state : i \in 1..Len(df)}

gender_options == {"F", "M"}

\* The list built for comma-separated input
name_list(text) ==
    LET parts == split(text)
    IN  [i \in 1..Len(parts) |-> capitalize(strip(parts[i]))]

\* multiple_names
is_multiple(text) == text # NoneText /\ has_comma(text)

\* first_name after normalisation, for single-name input
single_name(text) == capitalize(text)

\* "if first_name:" -- None and "" are falsy; a list from split is never empty
has_name(text) ==
    /\ text # NoneText
    /\ \/ is_multiple(text)
       \/ single_name(text) # <<>>

\* (mutant) any(...) in place of all(...)
any_found(df, names, yrs, sts) ==
    \E i \in 1..Len(names) : check_match(df, names[i], yrs, sts)

\* all([check_match(df, name, years, states) for name in first_name])
all_found(df, names, yrs, sts) ==
    all_true([i \in 1..Len(names) |-> check_match(df, names[i], yrs, sts)])

\* The names written by the loop over first_name in the else branch
RECURSIVE not_found_names(_, _, _, _)
not_found_names(df, names, yrs, sts) ==
    IF names = <<>> THEN <<>>
    ELSE (IF ~check_match(df, Head(names), yrs, sts) THEN <<Head(names)>> ELSE <<>>)
         \o not_found_names(df, Tail(names), yrs, sts)

RECURSIVE filter_rows(_, _)
\* DataFrame.filter: the rows whose predicate value is true, in row order
filter_rows(df, keep) ==
    IF df = <<>> THEN <<>>
    ELSE (IF keep[1] THEN <<Head(df)>> ELSE <<>>)
         \o filter_rows(Tail(df), Tail(keep))

\* The expression given to df.filter for the plot.  first_name is the single
\* normalised name, or the list when multiple is true.
plot_filter(df, first_name, multiple, sts, yrs, genders) ==
    filter_rows(df,
        [i \in 1..Len(df) |->
            /\ IF ~multiple THEN df[i].name = first_name
               ELSE is_in_list(df[i].name, first_name)
            /\ is_in(df[i].state, sts)
            /\ is_between(df[i].year, yrs[1], yrs[2])
            /\ is_in(df[i].gender, genders)])

\* What one run of the script shows, from the widget values on.
script(df, text, sts, genders, rank_metric, yrs) ==
    IF genders = {}
    THEN \* gender_select.value = [...] on a list raises AttributeError
         [outcome |-> "error", name_exists |-> FALSE, plot |-> NoPlot,
          messages |-> <<>>, matches |-> <<>>]
    ELSE IF ~has_name(text)
    THEN [outcome |-> "info", name_exists |-> FALSE, plot |-> NoPlot,
          messages |-> <<>>, matches |-> <<>>]
    ELSE
      LET multiple == is_multiple(text)
          first_name == IF multiple THEN name_list(text) ELSE single_name(text)
          shown == IF multiple THEN <<>>
                   ELSE filter_name(df, text, n_suggestions, yrs, sts)
          found == IF multiple THEN all_found(df, first_name, yrs, sts)
                   ELSE check_match(df, first_name, yrs, sts)
      IN  IF found
          THEN [outcome |-> "plot", name_exists |-> TRUE,
                plot |-> [rows |-> plot_filter(df, first_name, multiple, sts,
                                               yrs, genders),
                          y |-> IF rank_metric THEN "rank" ELSE "popularity",
                          by |-> IF multiple THEN <<"state", "gender", "name">>
                                 ELSE <<"state", "gender">>],
                messages |-> <<>>, matches |-> shown]
          ELSE [outcome |-> "notfound", name_exists |-> FALSE, plot |-> NoPlot,
                messages |-> IF multiple
                             THEN not_found_names(df, first_name, yrs, sts)
                             ELSE <<first_name>>,
                matches |-> shown]

----------------------------------------------------------------------------
(* Input sets                                                              *)

Texts == SeqsOf(Chars, 0, MaxTextLen)


pdf_entry == [txt |-> FALSE, yob |-> 0, rows |-> <<>>]

nat(n, g, c) == [name |-> n, gender |-> g, count |-> c]
st(s, g, y, n, c) == [state |-> s, gender |-> g, year |-> y, name |-> n, count |-> c]

nA == <<"A">>
nAb == <<"A", "b">>
nB == <<"B">>

\* The archives the app runs against: "A" in every year, "Ab" only in 2015,
\* "B" only for gender M, and one state file.
SiteArchive ==
    [national |->
        << pdf_entry,
           [txt |-> TRUE, yob |-> 2014,
            rows |-> <<nat(nA, "F", 5), nat(nB, "M", 3)>>],
           [txt |-> TRUE, yob |-> 2015,
            rows |-> <<nat(nA, "F", 4), nat(nAb, "F", 2), nat(nB, "M", 3)>>],
           [txt |-> TRUE, yob |-> 2016,
            rows |-> <<nat(nA, "F", 6), nat(nB, "M", 2)>>] >>,
     state |->
        << [txt |-> FALSE, rows |-> <<>>],
           [txt |-> TRUE,
            rows |-> <<st("CA", "F", 2016, nA, 2), st("CA", "M", 2015, nB, 1)>>] >>]

SiteArchives == {SiteArchive}

\* Archives for runs of load_data alone: one national file of 1..MaxRows
\* arbitrary rows, an optional second national file, an optional state file
\* holding a tie, and a non-data member in each archive.
NationalRows ==
    {nat(n, g, c) : n \in {nA, nB}, g \in gender_options, c \in {1, 2}}

LoadArchives ==
    {[national |->
         <<pdf_entry, [txt |-> TRUE, yob |-> 2015, rows |-> rs]>>
         \o (IF second
             THEN <<[txt |-> TRUE, yob |-> 2016, rows |-> <<nat(nA, "F", 1)>>]>>
             ELSE <<>>),
      state |->
         <<[txt |-> FALSE, rows |-> <<>>]>>
         \o (IF third
             THEN <<[txt |-> TRUE,
                     rows |-> <<st("CA", "F", 2015, nA, 1),
                                st("CA", "F", 2015, nB, 1),
                                st("CA", "M", 2015, nB, 2)>>]>>
             ELSE <<>>)] :
        rs \in SeqsOf(NationalRows, 1, MaxRows), second \in BOOLEAN,
        third \in BOOLEAN}

----------------------------------------------------------------------------
(* The app: every user interaction reruns the whole script                 *)

InitWidgets ==
    /\ first_name_input = NoneText
    /\ states = {"nation"}
    /\ gender_select = gender_options
    /\ use_rank = TRUE
    /\ years = <<>>

NoView ==
    [outcome |-> "none", name_exists |-> FALSE, plot |-> NoPlot,
     messages |-> <<>>, matches |-> <<>>]

\* load_data raised: nothing after it runs
LoadError ==
    [outcome |-> "error", name_exists |-> FALSE, plot |-> NoPlot,
     messages |-> <<>>, matches |-> <<>>]

NoCall == [fn |-> "none"]
NoReturn == [raised |-> FALSE, value |-> <<>>]

Init ==
    /\ archive \in SiteArchives
    /\ cache = {}
    /\ called = FALSE
    /\ fetched = 0
    /\ InitWidgets
    /\ view = NoView
    /\ args = NoCall
    /\ ret = NoReturn

\* df = load_data(): the decorator returns the stored table, or runs the body.
LoadData ==
    IF cache_data_hit(cache)
    THEN called' = TRUE /\ fetched' = 0 /\ cache' = cache
    ELSE \E net \in Network, tie \in TieOrders : LoadDataBody(net, tie)

\* One run of the script with the widget values given.  yrs = <<>> stands for
\* a slider that has not been shown yet and takes its default value.
RunScript(text, sts, genders, rank_metric, yrs) ==
    /\ LoadData
    /\ IF cache' = {}
       THEN view' = LoadError /\ UNCHANGED widgets
       ELSE /\ first_name_input' = text
            /\ states' = sts
            /\ gender_select' = genders
            /\ use_rank' = rank_metric
            /\ years' = IF yrs = <<>>
                        THEN <<default_lo, year_max(CHOOSE t \in cache' : TRUE)>>
                        ELSE yrs
            /\ view' = script(CHOOSE t \in cache' : TRUE, text, sts, genders,
                              rank_metric, years')
    /\ UNCHANGED <<archive, args, ret>>

\* The widgets exist once a run got past load_data.
WidgetsShown == cache # {} /\ years # <<>>

\* Opening the page, or rerunning it without touching a widget
Rerun ==
    RunScript(first_name_input, states, gender_select, use_rank, years)

typed(text) == IF text = NoneText THEN <<>> ELSE text

\* The user types one more character into the Name box, or deletes the last
\* one, and presses Enter.
TypeName ==
    /\ WidgetsShown
    /\ \/ \E c \in TypedChars :
             /\ Len(typed(first_name_input)) < MaxTextLen
             /\ RunScript(Append(typed(first_name_input), c), states,
                          gender_select, use_rank, years)
       \/ /\ Len(typed(first_name_input)) > 0
          /\ RunScript(SubSeq(typed(first_name_input), 1,
                              Len(typed(first_name_input)) - 1),
                       states, gender_select, use_rank, years)

SelectStates ==
    /\ WidgetsShown
    /\ \E s \in state_options(CHOOSE t \in cache : TRUE) :
          RunScript(first_name_input,
                    IF s \in states THEN states \ {s} ELSE states \cup {s},
                    gender_select, use_rank, years)

SelectGender ==
    /\ WidgetsShown
    /\ \E g \in gender_options :
          RunScript(first_name_input, states,
                    IF g \in gender_select THEN gender_select \ {g}
                    ELSE gender_select \cup {g},
                    use_rank, years)

ToggleMetric ==
    /\ WidgetsShown
    /\ RunScript(first_name_input, states, gender_select, ~use_rank, years)

\* A range slider returns its two handles in order: lo <= hi.
MoveSlider ==
    /\ WidgetsShown
    /\ LET df == CHOOSE t \in cache : TRUE
       IN  \E lo \in year_min(df)..year_max(df), hi \in year_min(df)..year_max(df) :
              /\ lo <= hi
              /\ RunScript(first_name_input, states, gender_select, use_rank,
                           <<lo, hi>>)

Next ==
    \/ Rerun
    \/ TypeName
    \/ SelectStates
    \/ SelectGender
    \/ ToggleMetric
    \/ MoveSlider

Spec == Init /\ [][Next]_vars

----------------------------------------------------------------------------
(* load_data called on its own, on arbitrary small archives                *)

InitLoad ==
    /\ archive \in LoadArchives
    /\ cache = {}
    /\ called = FALSE
    /\ fetched = 0
    /\ InitWidgets
    /\ view = NoView
    /\ args = NoCall
    /\ ret = NoReturn

CallLoadData ==
    /\ LoadData
    /\ args' = [fn |-> "load_data"]
    /\ ret' = IF cache' = {} THEN [raised |-> TRUE, value |-> <<>>]
              ELSE [raised |-> FALSE, value |-> CHOOSE t \in cache' : TRUE]
    /\ UNCHANGED <<archive, widgets, view>>

NextLoad == CallLoadData

SpecLoad == InitLoad /\ [][NextLoad]_vars

----------------------------------------------------------------------------
(* find_matching_rows and the plot filter called on their own, on the      *)
(* loaded table, with arbitrary small arguments                            *)

InitLoaded ==
    /\ archive \in SiteArchives
    /\ \E tie \in TieOrders : cache = {load_data(archive, tie)}
    /\ called = TRUE
    /\ fetched = 2
    /\ InitWidgets
    /\ view = NoView
    /\ args = NoCall
    /\ ret = NoReturn

YearValues == {2014, 2015, 2016}
YearLists == SeqsOf({2015, 2016}, 0, 2)

CallFindMatchingRows ==
    /\ args.fn = "none"
    /\ \E text \in Texts, yrs \in YearLists,
          sts \in SUBSET state_options(CHOOSE t \in cache : TRUE),
          prefix \in BOOLEAN :
          /\ args' = [fn |-> "find_matching_rows", text |-> text, years |-> yrs,
                      states |-> sts, starts_with |-> prefix]
          /\ ret' = [raised |-> FALSE,
                     value |-> find_matching_rows(CHOOSE t \in cache : TRUE,
                                                  text, yrs, sts, prefix)]
    /\ UNCHANGED <<archive, cache, called, fetched, widgets, view>>

NextMatch == CallFindMatchingRows

SpecMatch == InitLoaded /\ [][NextMatch]_vars

\* The plot query with the name argument the script would build from text,
\* and any two slider ends, in order or not.
CallPlotFilter ==
    /\ args.fn = "none"
    /\ \E text \in Texts, lo \in YearValues, hi \in YearValues,
          sts \in SUBSET state_options(CHOOSE t \in cache : TRUE),
          genders \in SUBSET gender_options :
          /\ args' = [fn |-> "plot_filter",
                      first_name |-> IF has_comma(text) THEN name_list(text)
                                     ELSE single_name(text),
                      multiple_names |-> has_comma(text),
                      states |-> sts, years |-> <<lo, hi>>,
                      gender_select |-> genders]
          /\ ret' = [raised |-> FALSE,
                     value |-> plot_filter(CHOOSE t \in cache : TRUE,
                                           args'.first_name, args'.multiple_names,
                                           sts, <<lo, hi>>, genders)]
    /\ UNCHANGED <<archive, cache, called, fetched, widgets, view>>

NextQuery == CallPlotFilter

SpecQuery == InitLoaded /\ [][NextQuery]_vars

----------------------------------------------------------------------------
(* Properties                                                              *)

\* The table the script works on, once load_data has returned one
DF == CHOOSE t \in cache : TRUE

\* A script run got past load_data and past the gender reset
RanBody == cache # {} /\ view.outcome \notin {"none", "error"}

\* The name text of the last run, normalised as the script does
SingleRun == RanBody /\ has_name(first_name_input) /\ ~is_multiple(first_name_input)
MultiRun == RanBody /\ is_multiple(first_name_input)

\* Some row has this name in a selected state and a year of lo..hi
InSelectedRange(name) ==
    \E i \in 1..Len(DF) :
        /\ DF[i].name = name
        /\ DF[i].state \in states
        /\ years[1] <= DF[i].year /\ DF[i].year <= years[2]

RowsOfPartition(t, i) ==
    {j \in 1..Len(t) : <<t[j].state, t[j].gender, t[j].year>>
                       = <<t[i].state, t[i].gender, t[i].year>>}

\* C1: in the table load_data builds, the ranks of every (state, gender,
\* year) partition of k rows are exactly 1..k, and a smaller rank never has
\* a smaller count (equal counts get distinct ranks).
C1_RankIsPermutation ==
    \A t \in cache : \A i \in 1..Len(t) :
        LET P == RowsOfPartition(t, i)
        IN  /\ {t[j].rank : j \in P} = 1..Cardinality(P)
            /\ \A j, k \in P : t[j].rank < t[k].rank => t[j].count >= t[k].count
            /\ \A j \in P : t[j].rank = 1 => \A k \in P : t[j].count >= t[k].count

\* A built table holding a partition with two rows of equal count and a
\* third row of another count
C1_Witness ==
    \E t \in cache : \E i, j, k \in 1..Len(t) :
        /\ i # j
        /\ {j, k} \subseteq RowsOfPartition(t, i)
        /\ t[i].count = t[j].count
        /\ t[k].count # t[i].count

\* C2: the name-found signal of a run is true exactly when some row has the
\* normalised name, a selected state and a year within lo..hi (every name of
\* a comma-separated list, for a list).
C2_FoundIffRowInRange ==
    /\ SingleRun =>
          (view.name_exists <=> InSelectedRange(capitalize(first_name_input)))
    /\ MultiRun =>
          (view.name_exists <=>
              \A i \in 1..Len(split(first_name_input)) :
                  InSelectedRange(capitalize(strip(split(first_name_input)[i]))))

\* The mask the contract of find_matching_rows describes, for the call in args
ExpectedMask(text) ==
    LET norm == [i \in 1..Len(text) |->
                    IF i = 1 THEN upper(text[i]) ELSE lower(text[i])]
    IN  [i \in 1..Len(DF) |->
            /\ \E k \in 1..Len(args.years) : args.years[k] = DF[i].year
            /\ DF[i].state \in args.states
            /\ IF args.starts_with
               THEN /\ Len(DF[i].name) >= Len(norm)
                    /\ \A k \in 1..Len(norm) : DF[i].name[k] = norm[k]
               ELSE DF[i].name = norm]

\* Every way of writing text in upper and lower case
CaseVariants(text) ==
    {[i \in 1..Len(text) |-> IF i \in U THEN upper(text[i]) ELSE lower(text[i])] :
        U \in SUBSET (1..Len(text))}

\* C3: find_matching_rows returns the mask that is true exactly for the rows
\* with year in years, state in states and name equal to (or, with
\* starts_with, starting with) the text with its first character upper-cased
\* and the rest lower-cased; every letter-case variant of the text gives the
\* same mask; the table is unchanged.
C3_MaskIsExact ==
    args.fn = "find_matching_rows" =>
        /\ ~ret.raised
        /\ ret.value = ExpectedMask(args.text)
        /\ \A v \in CaseVariants(args.text) :
              find_matching_rows(DF, v, args.years, args.states,
                                 args.starts_with) = ret.value
        /\ \E tie \in TieOrders : cache = {load_data(archive, tie)}

\* A prefix call whose text has an upper-case letter after the first
\* character and a lower-case first letter, selecting some but not all rows
C3_Witness ==
    /\ args.fn = "find_matching_rows"
    /\ args.starts_with
    /\ args.text = <<"a", "B">>
    /\ \E i, j \in 1..Len(ret.value) : ret.value[i] /\ ~ret.value[j]

\* C4: for comma-separated input the name-found result is the AND of
\* check_match over the trimmed, normalised tokens; the plot is shown only
\* if every token is found; otherwise one not-found message is written for
\* each token that is not found, in order, and none for a token that is.
C4_MultiNameIsConjunction ==
    MultiRun =>
        LET toks == split(first_name_input)
            names == [i \in 1..Len(toks) |-> capitalize(strip(toks[i]))]
            miss(n) == ~check_match(DF, n, years, states)
        IN  /\ view.name_exists <=> \A i \in 1..Len(names) : ~miss(names[i])
            /\ view.outcome = "plot" <=> view.name_exists
            /\ view.outcome = "notfound" <=> ~view.name_exists
            /\ view.outcome = "plot" => view.messages = <<>>
            /\ view.outcome = "notfound" => view.messages = SelectSeq(names, miss)

\* A two-name run where one name is found and the other is reported
C4_Witness ==
    /\ MultiRun
    /\ Len(split(first_name_input)) = 2
    /\ view.outcome = "notfound"
    /\ Len(view.messages) = 1
    /\ view.messages[1] # <<>>

\* C5: every run on normal user input ends with a plot, a not-found message
\* or the prompt to type a name, and a cleared gender selection falls back
\* to {F, M}.
C5_RunEndsInOneOfThree ==
    cache # {} => view.outcome \in {"plot", "notfound", "info"}

\* C6: text that is empty after trimming is no input: a blank single entry
\* ends with the prompt, and no not-found message is written for a blank
\* token of a list.
C6_BlankTextIsNoInput ==
    RanBody /\ first_name_input # NoneText =>
        /\ (~is_multiple(first_name_input) /\ strip(first_name_input) = <<>>)
              => view.outcome = "info"
        /\ \A i \in 1..Len(view.messages) : strip(view.messages[i]) # <<>>

RowWanted(r) ==
    /\ IF args.multiple_names
       THEN \E k \in 1..Len(args.first_name) : args.first_name[k] = r.name
       ELSE r.name = args.first_name
    /\ r.state \in args.states
    /\ args.years[1] <= r.year /\ r.year <= args.years[2]
    /\ r.gender \in args.gender_select

ByName(r) ==
    IF args.multiple_names
    THEN \E k \in 1..Len(args.first_name) : args.first_name[k] = r.name
    ELSE r.name = args.first_name
ByState(r) == r.state \in args.states
ByYear(r) == args.years[1] <= r.year /\ r.year <= args.years[2]
ByGender(r) == r.gender \in args.gender_select

\* C7: the plot filter returns exactly the rows with the name (or a name of
\* the list), a selected state, lo <= year <= hi and a selected gender; it
\* is empty, and does not raise, when lo > hi or no state or no gender is
\* selected; applying the four predicates one after another in either order
\* gives the same rows.
C7_FilterIsConjunction ==
    args.fn = "plot_filter" =>
        /\ ~ret.raised
        /\ ret.value = SelectSeq(DF, RowWanted)
        /\ (args.years[1] > args.years[2] \/ args.states = {}
              \/ args.gender_select = {}) => ret.value = <<>>
        /\ ret.value
              = SelectSeq(SelectSeq(SelectSeq(SelectSeq(DF, ByName), ByState),
                                    ByYear), ByGender)
        /\ ret.value
              = SelectSeq(SelectSeq(SelectSeq(SelectSeq(DF, ByGender), ByYear),
                                    ByState), ByName)

\* A two-name query over both years' ends that keeps some rows, drops
\* others, and keeps a row at each end of the range
C7_Witness ==
    /\ args.fn = "plot_filter"
    /\ args.multiple_names
    /\ args.years[1] < args.years[2]
    /\ \E i, j \in 1..Len(ret.value) :
          /\ ret.value[i].year = args.years[1]
          /\ ret.value[j].year = args.years[2]
    /\ Len(ret.value) < Len(DF)

\* C8: the suggestions are the first n_rows, in ascending order, of the
\* distinct names that start with the normalised text and occur in a
\* selected state and a year within lo..hi.
C8_SuggestionsCoverRange ==
    SingleRun =>
        view.matches
          = head(sort({DF[i].name : i \in {j \in 1..Len(DF) :
                          /\ starts_with(DF[j].name, capitalize(first_name_input))
                          /\ DF[j].state \in states
                          /\ years[1] <= DF[j].year
                          /\ DF[j].year <= years[2]}}),
                 n_suggestions)

\* C9 as claimed: after the first call of load_data no call downloads
\* anything (the pipeline runs at most once).
C9_OnlyFirstCallDownloads == [][called => fetched' = 0]_vars

\* C9 as amended: once load_data has returned a table, every later call
\* returns that same table and downloads nothing, and no interaction
\* changes it.
C9_BuiltTableIsReused ==
    [][cache # {} => (cache' = cache /\ fetched' = 0)]_vars

\* A rerun served from the cache that went on to plot
C9_Witness ==
    /\ cache # {}
    /\ called
    /\ fetched = 0
    /\ view.outcome = "plot"

\* C10: whenever a plot is rendered its slice is non-empty and, for a list
\* of names, holds a row for every name of the list.
C10_PlotCoversFoundNames ==
    (RanBody /\ view.outcome = "plot") =>
        /\ view.plot.rows # <<>>
        /\ is_multiple(first_name_input) =>
              \A i \in 1..Len(split(first_name_input)) :
                  \E k \in 1..Len(view.plot.rows) :
                      view.plot.rows[k].name
                        = capitalize(strip(split(first_name_input)[i]))

====
